---- MODULE Spec2Model ----
(***************************************************************************)
(* Model of the cloudability-reporting program.                            *)
(*                                                                         *)
(*   SpecCosts     pr_costs (src/main.py): the rogue adjustment, the        *)
(*                 grouping, the outer join, the NaN fill, the net          *)
(*                 adjustment and the sort, one action per statement.       *)
(*                                                                         *)
(*   SpecNormalize Request.report and Request._request_result_to_dict     *)
(*                 (src/cloudability.py) over a stub transport, one action  *)
(*                 per loop iteration.                                      *)
(*                                                                         *)
(*   SpecQuery     CloudabilityReport._query_report (src/cloudability.py):  *)
(*                 the checks on the upstream response, one action each.    *)
(*   SpecFilter    Request.make_filter (src/cloudability.py), with strings  *)
(*                 as sequences of characters.                              *)
(*                                                                         *)
(* Floating point numbers are modelled as exact rationals <<num, den>> in   *)
(* lowest terms, plus NaN for a missing value; rounding is not modelled.    *)
(***************************************************************************)
EXTENDS Integers, Sequences, FiniteSets, TLC

VARIABLES
    pc,            \* pr_costs: the statement about to run
    total_cost,    \* pr_costs: the total cost report (main.py:66)
    rogue_report,  \* pr_costs: the rogue report as run_request returned it (main.py:99)
    rogue_cost,    \* pr_costs: the rogue data frame, adjusted in place (main.py:146-149)
    costs,         \* pr_costs: the joined data frame (main.py:153)
    npc,           \* Request.report: the statement about to run, or how it ended
    request,       \* Request.report: self, as Request.__init__ left it
    request_result,\* Request.report: the rows the transport returns
    ret,           \* _request_result_to_dict: ret, a dict as a list of <<key, value>>
    types,         \* _request_result_to_dict: types, a dict as a list of <<key, value>>
    lookups,       \* _request_result_to_dict: calls of measures.type_from_name so far
    cursor,        \* _request_result_to_dict: position of the running for loop
    report,        \* Request.report: the dict it returns
    qpc,           \* _query_report: the statement about to run, or how it ended
    response,      \* _query_report: request.json()
    results,       \* _query_report: the list it returns
    fpc,           \* make_filter: the statement about to run, or how it ended
    fargs,         \* make_filter: the arguments key, operator, value
    filter         \* make_filter: the string it returns

costVars == <<pc, total_cost, rogue_report, rogue_cost, costs>>
normVars == <<npc, request, request_result, ret, types, lookups, cursor, report>>

queryVars == <<qpc, response, results>>
filterVars == <<fpc, fargs, filter>>

vars == <<costVars, normVars, queryVars, filterVars>>

----------------------------------------------------------------------------
(* The state of an operation that is not the one under analysis.           *)

EmptyFrame == [columns |-> {}, rows |-> << >>]

NormIdle ==
    /\ npc = "idle"
    /\ request = << >>
    /\ request_result = << >>
    /\ ret = << >>
    /\ types = << >>
    /\ lookups = 0
    /\ cursor = 0
    /\ report = << >>

CostsIdle ==
    /\ pc = "idle"
    /\ total_cost = << >>
    /\ rogue_report = << >>
    /\ rogue_cost = << >>
    /\ costs = EmptyFrame

QueryIdle ==
    /\ qpc = "idle"
    /\ response = << >>
    /\ results = << >>

FilterIdle ==
    /\ fpc = "idle"
    /\ fargs = << >>
    /\ filter = << >>

----------------------------------------------------------------------------
(* Bounds of the model.                                                    *)

MaxTotalRows == 2
MaxRogueRows == 2

\* The (Project, Branch) keys of the reports, in the lexicographic order
\* groupby sorts them in.
KeyList == << <<"A", "X">>, <<"A", "Y">>, <<"B", "X">> >>
Keys == {KeyList[i] : i \in 1..Len(KeyList)}

TotalCostValues == {100}
TotalHoursValues == {50}
RogueCostValues == {20}
\* The rogue request filters on Usage Hours >= 4 (main.py:107-110).
RogueHoursValues == {4, 6, 10}

----------------------------------------------------------------------------
(* float64 arithmetic, as exact rationals with NaN.                        *)

NaN == << >>

Abs(n) == IF n < 0 THEN -n ELSE n

RECURSIVE GCD(_, _)
GCD(a, b) == IF b = 0 THEN a ELSE GCD(b, a % b)

\* n/d in lowest terms with a positive denominator.
Rat(n, d) ==
    LET g == GCD(Abs(n), Abs(d))
        s == IF d < 0 THEN -1 ELSE 1
    IN  <<(s * n) \div g, (s * d) \div g>>

F(n) == <<n, 1>>

FAdd(a, b) ==
    IF a = NaN \/ b = NaN THEN NaN
    ELSE Rat(a[1] * b[2] + b[1] * a[2], a[2] * b[2])

FSub(a, b) ==
    IF a = NaN \/ b = NaN THEN NaN
    ELSE Rat(a[1] * b[2] - b[1] * a[2], a[2] * b[2])

FMul(a, b) ==
    IF a = NaN \/ b = NaN THEN NaN
    ELSE Rat(a[1] * b[1], a[2] * b[2])

\* The divisor is a usage-hours value, never zero in the reports modelled.
FDiv(a, b) ==
    IF a = NaN \/ b = NaN THEN NaN
    ELSE Rat(a[1] * b[2], a[2] * b[1])

\* a <= b on floats: false when either side is NaN.
FLeq(a, b) ==
    /\ a # NaN
    /\ b # NaN
    /\ a[1] * b[2] <= b[1] * a[2]

FLess(a, b) ==
    /\ a # NaN
    /\ b # NaN
    /\ a[1] * b[2] < b[1] * a[2]

----------------------------------------------------------------------------
(* pr_costs                                                                *)

\* The per-resource baseline of usage hours that is not rogue.
BaselineHours == 4

TotalColumns == {"Cost", "Usage_Hours"}
RogueColumns == {"Rogue_Cost", "Rogue_Usage_Hours"}
GroupFields == <<"Project", "Branch">>

TotalRows ==
    [Project : {k[1] : k \in Keys}, Branch : {k[2] : k \in Keys},
     Cost : {F(c) : c \in TotalCostValues},
     Usage_Hours : {F(h) : h \in TotalHoursValues}]

RogueRows ==
    [Project : {k[1] : k \in Keys}, Branch : {k[2] : k \in Keys},
     Rogue_Cost : {F(c) : c \in RogueCostValues},
     Rogue_Usage_Hours : {F(h) : h \in RogueHoursValues}]

SeqsUpTo(S, n) == UNION {[1..m -> S] : m \in 0..n}

KeyOf(row, fields) == [i \in 1..Len(fields) |-> row[fields[i]]]

\* The reports the two requests can return: one row per (Project, Branch)
\* or per (Project, Branch, Resource_ID) as the requests' dimensions say.
TotalReports ==
    {r \in SeqsUpTo(TotalRows, MaxTotalRows) :
        \A i \in DOMAIN r : KeyOf(r[i], GroupFields) \in Keys}

RogueReports ==
    {[i \in DOMAIN r |->
        [Project |-> r[i].Project, Branch |-> r[i].Branch, Resource_ID |-> i,
         Rogue_Cost |-> r[i].Rogue_Cost,
         Rogue_Usage_Hours |-> r[i].Rogue_Usage_Hours]] :
     r \in {q \in SeqsUpTo(RogueRows, MaxRogueRows) :
              \A i \in DOMAIN q : KeyOf(q[i], GroupFields) \in Keys}}

\* Sum of column col over the rows of df whose key is k, in row order.
RECURSIVE SumColumn(_, _, _, _)
SumColumn(df, fields, k, col) ==
    IF df = << >> THEN F(0)
    ELSE LET rest == SumColumn(SubSeq(df, 1, Len(df) - 1), fields, k, col)
             last == df[Len(df)]
         IN  IF KeyOf(last, fields) = k THEN FAdd(rest, last[col]) ELSE rest

\* The keys of S as a sequence in groupby's sorted order.
SortedKeys(S) ==
    LET idx == {i \in 1..Len(KeyList) : KeyList[i] \in S}
    IN  [j \in 1..Cardinality(idx) |->
            KeyList[CHOOSE i \in idx : Cardinality({m \in idx : m < i}) = j - 1]]

FrameKeys(df, fields) == {KeyOf(df[i], fields) : i \in DOMAIN df}

\* df.groupby(fields).sum(numeric_only=True): one row per distinct key, in
\* sorted key order, holding the sums of the numeric columns.
group_by_and_sum(df, fields, numeric) ==
    LET ks == SortedKeys(FrameKeys(df, fields))
    IN  [columns |-> numeric,
         index |-> ks,
         data |-> [k \in FrameKeys(df, fields) |->
                     [c \in numeric |-> SumColumn(df, fields, k, c)]]]

\* The columns numeric_only keeps. A frame built from empty lists has columns
\* of dtype object or float64 depending on pandas' inference, so both
\* outcomes are possible for an empty report.
NumericChoices(df, cols) == IF Len(df) > 0 THEN {cols} ELSE {cols, {}}

\* Variant of ConcatIndex for a left join: the keys of the left frame only.
ConcatIndexLeftJoin(left, right) == left.index

\* The index of pd.concat(axis=1): the union of the two indexes, the left
\* keys first.
ConcatIndex(left, right) ==
    left.index \o
    SortedKeys({right.index[i] : i \in DOMAIN right.index}
                 \ {left.index[i] : i \in DOMAIN left.index})

\* pd.concat([left, right], axis=1): outer join on the index, NaN where a
\* frame has no row for the key.
Concat(left, right) ==
    LET idx == ConcatIndex(left, right)
        cell(f, k, c) == IF k \in DOMAIN f.data THEN f.data[k][c] ELSE NaN
    IN  [columns |-> left.columns \cup right.columns,
         rows |-> [i \in DOMAIN idx |->
                     [c \in {"key"} \cup left.columns \cup right.columns |->
                        IF c = "key" THEN idx[i]
                        ELSE IF c \in left.columns THEN cell(left, idx[i], c)
                        ELSE cell(right, idx[i], c)]]]

\* Variant of FillNa that leaves the missing values in place.
FillNaKeepsNaN(v) == v

FillNa(v) == IF v = NaN THEN F(0) ELSE v

\* a sorts strictly before b under sort_values(by="Cost"): ascending, NaN last.
SortsBefore(a, b) ==
    /\ a.Cost # NaN
    /\ b.Cost = NaN \/ FLess(a.Cost, b.Cost)

\* Variant of SortValues that returns the rows in the order it got them.
SortValuesUnsorted(rows) == {rows}

\* The orders sort_values may return: ascending by Cost with NaN last; the
\* default quicksort is not stable, so rows of equal Cost come in any order.
SortValues(rows) ==
    LET n == Len(rows)
        perms == {p \in [1..n -> 1..n] : \A i, j \in 1..n : p[i] = p[j] => i = j}
    IN  {[i \in 1..n |-> rows[p[i]]] : p \in
            {q \in perms : \A i, j \in 1..n :
                i < j => ~SortsBefore(rows[q[j]], rows[q[i]])}}

InitCosts ==
    /\ pc = "adjust_cost"
    /\ total_cost \in TotalReports
    /\ rogue_report \in RogueReports
    /\ rogue_cost = rogue_report
    /\ costs = EmptyFrame
    /\ NormIdle
    /\ QueryIdle
    /\ FilterIdle

\* main.py:146-148
AdjustRogueCost ==
    /\ pc = "adjust_cost"
    /\ rogue_cost' =
         [i \in DOMAIN rogue_cost |->
            [rogue_cost[i] EXCEPT !.Rogue_Cost =
                FSub(rogue_cost[i].Rogue_Cost,
                     FMul(FDiv(rogue_cost[i].Rogue_Cost,
                               rogue_cost[i].Rogue_Usage_Hours),
                          F(BaselineHours)))]]
    /\ pc' = "adjust_hours"
    /\ UNCHANGED <<total_cost, rogue_report, costs, normVars, queryVars, filterVars>>

\* Variant of AdjustRogueHours that credits the baseline once per
\* (Project, Branch) group, on the group's first row, instead of once per row.
AdjustRogueHoursPerGroup ==
    /\ pc = "adjust_hours"
    /\ rogue_cost' =
         [i \in DOMAIN rogue_cost |->
            IF \E j \in 1..(i - 1) :
                 KeyOf(rogue_cost[j], GroupFields) = KeyOf(rogue_cost[i], GroupFields)
            THEN rogue_cost[i]
            ELSE [rogue_cost[i] EXCEPT !.Rogue_Usage_Hours =
                    FSub(rogue_cost[i].Rogue_Usage_Hours, F(BaselineHours))]]
    /\ pc' = "concat"
    /\ UNCHANGED <<total_cost, rogue_report, costs, normVars, queryVars, filterVars>>

\* main.py:149
AdjustRogueHours ==
    /\ pc = "adjust_hours"
    /\ rogue_cost' =
         [i \in DOMAIN rogue_cost |->
            [rogue_cost[i] EXCEPT !.Rogue_Usage_Hours =
                FSub(rogue_cost[i].Rogue_Usage_Hours, F(BaselineHours))]]
    /\ pc' = "concat"
    /\ UNCHANGED <<total_cost, rogue_report, costs, normVars, queryVars, filterVars>>

\* main.py:153-159
GroupAndConcat ==
    /\ pc = "concat"
    /\ \E tnum \in NumericChoices(total_cost, TotalColumns),
          rnum \in NumericChoices(rogue_cost, RogueColumns) :
         costs' = Concat(group_by_and_sum(total_cost, GroupFields, tnum),
                         group_by_and_sum(rogue_cost, GroupFields, rnum))
    /\ pc' = "fillna"
    /\ UNCHANGED <<total_cost, rogue_report, rogue_cost, normVars, queryVars, filterVars>>

\* main.py:163-167; selecting a column the frame lacks raises KeyError.
FillRogueNa ==
    /\ pc = "fillna"
    /\ IF RogueColumns \subseteq costs.columns
       THEN /\ costs' = [costs EXCEPT !.rows =
                  [i \in DOMAIN costs.rows |->
                     [costs.rows[i] EXCEPT
                        !.Rogue_Usage_Hours = FillNa(@),
                        !.Rogue_Cost = FillNa(@)]]]
            /\ pc' = "net_cost"
       ELSE /\ pc' = "KeyError"
            /\ UNCHANGED costs
    /\ UNCHANGED <<total_cost, rogue_report, rogue_cost, normVars, queryVars, filterVars>>

\* main.py:172
NetCost ==
    /\ pc = "net_cost"
    /\ IF "Cost" \in costs.columns
       THEN /\ costs' = [costs EXCEPT !.rows =
                  [i \in DOMAIN costs.rows |->
                     [costs.rows[i] EXCEPT
                        !.Cost = FSub(@, costs.rows[i].Rogue_Cost)]]]
            /\ pc' = "net_hours"
       ELSE /\ pc' = "KeyError"
            /\ UNCHANGED costs
    /\ UNCHANGED <<total_cost, rogue_report, rogue_cost, normVars, queryVars, filterVars>>

\* main.py:173
NetHours ==
    /\ pc = "net_hours"
    /\ IF "Usage_Hours" \in costs.columns
       THEN /\ costs' = [costs EXCEPT !.rows =
                  [i \in DOMAIN costs.rows |->
                     [costs.rows[i] EXCEPT
                        !.Usage_Hours =
                            FSub(@, costs.rows[i].Rogue_Usage_Hours)]]]
            /\ pc' = "sort"
       ELSE /\ pc' = "KeyError"
            /\ UNCHANGED costs
    /\ UNCHANGED <<total_cost, rogue_report, rogue_cost, normVars, queryVars, filterVars>>

\* main.py:174-175
SortAndReturn ==
    /\ pc = "sort"
    /\ \E sorted \in SortValues(costs.rows) :
         costs' = [costs EXCEPT !.rows = sorted]
    /\ pc' = "done"
    /\ UNCHANGED <<total_cost, rogue_report, rogue_cost, normVars, queryVars, filterVars>>

NextCosts ==
    \/ AdjustRogueCost
    \/ AdjustRogueHours
    \/ GroupAndConcat
    \/ FillRogueNa
    \/ NetCost
    \/ NetHours
    \/ SortAndReturn

SpecCosts == InitCosts /\ [][NextCosts]_vars

----------------------------------------------------------------------------
(* Python dicts, as lists of <<key, value>> pairs in insertion order.      *)

DictKeys(d) == {d[i][1] : i \in DOMAIN d}

DictGet(d, k) == d[CHOOSE i \in DOMAIN d : d[i][1] = k][2]

\* d[k] = v: replaces the value of an existing key in place, appends a new key.
DictSet(d, k, v) ==
    IF k \in DictKeys(d)
    THEN [i \in DOMAIN d |-> IF d[i][1] = k THEN <<k, v>> ELSE d[i]]
    ELSE Append(d, <<k, v>>)

----------------------------------------------------------------------------
(* Measures                                                                *)

\* The measures the session loaded (CloudabilityReport.__init__).
Catalog ==
    << [label |-> "Cost (Total)", name |-> "cost", data_type |-> "currency"],
       [label |-> "Count", name |-> "count", data_type |-> "integer"],
       [label |-> "Project (value)", name |-> "project", data_type |-> "string"],
       [label |-> "Flag", name |-> "flag", data_type |-> "boolean"] >>

Raised(kind) == [ok |-> FALSE, err |-> kind]
Returned(v) == [ok |-> TRUE, val |-> v]

\* Variant of type_from_name that answers "string" for a name no measure has.
RECURSIVE type_from_name_or_string(_, _)
type_from_name_or_string(measures, name) ==
    IF measures = << >> THEN Returned("string")
    ELSE IF Head(measures).name = name THEN Returned(Head(measures).data_type)
    ELSE type_from_name_or_string(Tail(measures), name)

\* Measures.type_from_name: the data_type of the first measure of that name.
RECURSIVE type_from_name(_, _)
type_from_name(measures, name) ==
    IF measures = << >> THEN Raised("RuntimeError")
    ELSE IF Head(measures).name = name THEN Returned(Head(measures).data_type)
    ELSE type_from_name(Tail(measures), name)

----------------------------------------------------------------------------
(* Request                                                                 *)

MaxLines == 2

\* The values of a raw row, as the API's JSON gives them.
RawValues == {"7", "2.5"}

FilterLists == {<< >>, <<"vendor_account_identifier%3D%3D933752197999">>}
MetricLists == {<< >>, <<"cost">>, <<"cost", "count">>, <<"cost", "cost">>,
                <<"ghost">>, <<"cost", "ghost">>, <<"flag">>}
DimensionLists == {<< >>, <<"project">>, <<"cost">>, <<"ghost">>}
Aliases == {"Cost", "Project"}

Range(seq) == {seq[i] : i \in DOMAIN seq}

\* The name mappings a caller may pass for these names: none, or a dict from
\* some of the names to aliases.
MappingsFor(names) == UNION {[D -> Aliases] : D \in SUBSET names}

\* Request.__init__: an argument that is None or empty sets no attribute;
\* days has a class default.
RequestInit(filters, dimensions, metrics, mappings, days) ==
    [attrs |-> {"days"}
               \cup (IF filters # << >> THEN {"filters"} ELSE {})
               \cup (IF dimensions # << >> THEN {"dimensions"} ELSE {})
               \cup (IF metrics # << >> THEN {"metrics"} ELSE {})
               \cup (IF mappings # << >> THEN {"name_mapping"} ELSE {}),
     filters |-> filters,
     dimensions |-> dimensions,
     metrics |-> metrics,
     name_mapping |-> mappings,
     days |-> days]

\* float(value)
FloatOf(value) ==
    CASE value = "7" -> Returned([float |-> F(7)])
      [] value = "2.5" -> Returned([float |-> Rat(5, 2)])
      [] OTHER -> Raised("ValueError")

\* int(value)
IntOf(value) ==
    CASE value = "7" -> Returned([int |-> 7])
      [] OTHER -> Raised("ValueError")

\* str(value)
StrOf(value) == Returned([str |-> value])

\* Request.convert
convert(tp, value) ==
    CASE tp = "float" -> FloatOf(value)
      [] tp = "date" -> StrOf(value)
      [] tp = "percentage" -> FloatOf(value)
      [] tp = "integer" -> IntOf(value)
      [] tp = "currency" -> FloatOf(value)
      [] tp = "string" -> StrOf(value)
      [] OTHER -> Raised("RuntimeError")

\* Variant of AppendValue that puts the new value in front.
AppendValueInFront(d, k, v) == DictSet(d, k, <<v>> \o DictGet(d, k))

\* ret[k].append(v)
AppendValue(d, k, v) == DictSet(d, k, Append(DictGet(d, k), v))

\* One run of a "for name in names: ret[name].append(convert(...))" loop over
\* one line; stops at the first conversion that raises.
RECURSIVE AppendConverted(_, _, _, _)
AppendConverted(acc, tps, names, line) ==
    IF names = << >> \/ ~acc.ok THEN acc
    ELSE LET c == convert(DictGet(tps, Head(names)), line[Head(names)])
         IN  AppendConverted(
                 IF c.ok THEN Returned(AppendValue(acc.val, Head(names), c.val)) ELSE c,
                 tps, Tail(names), line)

\* Variant of RenameKeys that passes a column without an alias through under
\* its own name.
RECURSIVE RenameKeysPassThrough(_, _, _)
RenameKeysPassThrough(mapped_ret, items, name_mapping) ==
    IF items = << >> THEN Returned(mapped_ret)
    ELSE RenameKeysPassThrough(
             DictSet(mapped_ret,
                     IF Head(items)[1] \in DOMAIN name_mapping
                     THEN name_mapping[Head(items)[1]] ELSE Head(items)[1],
                     Head(items)[2]),
             Tail(items), name_mapping)

\* for k, v in ret.items(): mapped_ret[self.name_mapping[k]] = v
RECURSIVE RenameKeys(_, _, _)
RenameKeys(mapped_ret, items, name_mapping) ==
    IF items = << >> THEN Returned(mapped_ret)
    ELSE IF Head(items)[1] \notin DOMAIN name_mapping THEN Raised("KeyError")
    ELSE RenameKeys(DictSet(mapped_ret, name_mapping[Head(items)[1]], Head(items)[2]),
                    Tail(items), name_mapping)

\* A request as a caller built it, and the rows a stub transport returns for
\* it: one raw value per requested metric and dimension.
InitNormalize ==
    /\ CostsIdle
    /\ QueryIdle
    /\ FilterIdle
    /\ npc = "report"
    /\ \E f \in FilterLists, d \in DimensionLists, m \in MetricLists :
         /\ \E mp \in MappingsFor(Range(d) \cup Range(m)) :
               request = RequestInit(f, d, m, mp, 7)
         /\ request_result \in SeqsUpTo([Range(d) \cup Range(m) -> RawValues], MaxLines)
    /\ ret = << >>
    /\ types = << >>
    /\ lookups = 0
    /\ cursor = 0
    /\ report = << >>

\* cloudability.py:57-67: building the query reads self.dimensions,
\* self.filters and self.metrics; an attribute __init__ did not set raises
\* AttributeError. The handler returns request_result.
Report ==
    /\ npc = "report"
    /\ npc' = IF {"dimensions", "filters", "metrics"} \subseteq request.attrs
              THEN "metric_types" ELSE "AttributeError"
    /\ cursor' = 1
    /\ UNCHANGED <<request, request_result, ret, types, lookups, report, costVars, queryVars, filterVars>>

\* cloudability.py:79-83, one iteration
ResolveMetricType ==
    /\ npc = "metric_types"
    /\ LET metric == request.metrics[cursor]
           tp == type_from_name(Catalog, metric)
       IN  IF tp.ok
           THEN /\ ret' = DictSet(ret, metric, << >>)
                /\ types' = DictSet(types, metric, tp.val)
                /\ IF cursor < Len(request.metrics)
                   THEN cursor' = cursor + 1 /\ npc' = npc
                   ELSE cursor' = 1 /\ npc' = "dimension_types"
           ELSE /\ ret' = DictSet(ret, metric, << >>)
                /\ npc' = tp.err
                /\ UNCHANGED <<types, cursor>>
    /\ lookups' = lookups + 1
    /\ UNCHANGED <<request, request_result, report, costVars, queryVars, filterVars>>

\* cloudability.py:84-86, one iteration
ResolveDimensionType ==
    /\ npc = "dimension_types"
    /\ LET dimension == request.dimensions[cursor]
           tp == type_from_name(Catalog, dimension)
       IN  IF tp.ok
           THEN /\ ret' = DictSet(ret, dimension, << >>)
                /\ types' = DictSet(types, dimension, tp.val)
                /\ IF cursor < Len(request.dimensions)
                   THEN cursor' = cursor + 1 /\ npc' = npc
                   ELSE cursor' = 1 /\ npc' = IF request_result = << >>
                                            THEN "mapping" ELSE "lines"
           ELSE /\ ret' = DictSet(ret, dimension, << >>)
                /\ npc' = tp.err
                /\ UNCHANGED <<types, cursor>>
    /\ lookups' = lookups + 1
    /\ UNCHANGED <<request, request_result, report, costVars, queryVars, filterVars>>

\* cloudability.py:87-95, one line
ConvertLine ==
    /\ npc = "lines"
    /\ LET line == request_result[cursor]
           done == AppendConverted(
                       AppendConverted(Returned(ret), types, request.metrics, line),
                       types, request.dimensions, line)
       IN  IF done.ok
           THEN /\ ret' = done.val
                /\ IF cursor < Len(request_result)
                   THEN cursor' = cursor + 1 /\ npc' = npc
                   ELSE cursor' = 1 /\ npc' = "mapping"
           ELSE /\ npc' = done.err
                /\ UNCHANGED <<ret, cursor>>
    /\ UNCHANGED <<request, request_result, types, lookups, report, costVars, queryVars, filterVars>>

\* cloudability.py:96-102
RenameColumns ==
    /\ npc = "mapping"
    /\ IF "name_mapping" \notin request.attrs
       THEN npc' = "AttributeError" /\ UNCHANGED report
       ELSE IF request.name_mapping # << >>
       THEN LET mapped_ret == RenameKeys(<< >>, ret, request.name_mapping)
            IN  IF mapped_ret.ok
                THEN npc' = "done" /\ report' = mapped_ret.val
                ELSE npc' = mapped_ret.err /\ UNCHANGED report
       ELSE npc' = "done" /\ report' = ret
    /\ UNCHANGED <<request, request_result, ret, types, lookups, cursor, costVars, queryVars, filterVars>>

NextNormalize ==
    \/ Report
    \/ ResolveMetricType
    \/ ResolveDimensionType
    \/ ConvertLine
    \/ RenameColumns

SpecNormalize == InitNormalize /\ [][NextNormalize]_vars

----------------------------------------------------------------------------
(* CloudabilityReport._query_report                                        *)

MaxResults == 2

ResponseKeys == {"pagination", "results", "total_results"}

\* What request.json() can be: a JSON value that is no object, or an object
\* with some of the documented keys. A key the object lacks keeps a default
\* here that is never read.
Responses ==
    {[kind |-> k, keys |-> {}, pagination |-> << >>, results |-> << >>,
      total_results |-> 0] : k \in {"list", "null", "dict"}}
    \cup
    {[kind |-> "dict", keys |-> ks, pagination |-> p, results |-> r,
      total_results |-> t] :
        ks \in SUBSET ResponseKeys \ {{}},
        p \in {<< >>, [next |-> "token"]},
        r \in SeqsUpTo([cost : RawValues], MaxResults),
        t \in 0..MaxResults}

\* The responses, each once: a key the object lacks carries its default.
WellFormedDefaults(resp) ==
    /\ "pagination" \notin resp.keys => resp.pagination = << >>
    /\ "results" \notin resp.keys => resp.results = << >>
    /\ "total_results" \notin resp.keys => resp.total_results = 0

InitQuery ==
    /\ CostsIdle
    /\ NormIdle
    /\ FilterIdle
    /\ qpc = "is_dict"
    /\ response \in {resp \in Responses : WellFormedDefaults(resp)}
    /\ results = << >>

\* cloudability.py:173-175
CheckIsDict ==
    /\ qpc = "is_dict"
    /\ qpc' = IF response.kind # "dict" THEN "RuntimeError" ELSE "not_empty"
    /\ UNCHANGED <<response, results, costVars, normVars, filterVars>>

\* cloudability.py:176-177
CheckNotEmpty ==
    /\ qpc = "not_empty"
    /\ qpc' = IF response.keys = {} THEN "RuntimeError" ELSE "pagination"
    /\ UNCHANGED <<response, results, costVars, normVars, filterVars>>

\* cloudability.py:178-179: a set pagination field builds a RuntimeError that
\* no raise statement throws; a missing key raises KeyError.
CheckPagination ==
    /\ qpc = "pagination"
    /\ qpc' = IF "pagination" \notin response.keys THEN "KeyError"
              ELSE "assert_total"
    /\ UNCHANGED <<response, results, costVars, normVars, filterVars>>

\* cloudability.py:180-181
AssertTotalResults ==
    /\ qpc = "assert_total"
    /\ qpc' = IF {"results", "total_results"} \subseteq response.keys
              THEN IF Len(response.results) = response.total_results
                   THEN "return" ELSE "AssertionError"
              ELSE "KeyError"
    /\ UNCHANGED <<response, results, costVars, normVars, filterVars>>

\* cloudability.py:182
ReturnResults ==
    /\ qpc = "return"
    /\ results' = response.results
    /\ qpc' = "done"
    /\ UNCHANGED <<response, costVars, normVars, filterVars>>

NextQuery ==
    \/ CheckIsDict
    \/ CheckNotEmpty
    \/ CheckPagination
    \/ AssertTotalResults
    \/ ReturnResults

SpecQuery == InitQuery /\ [][NextQuery]_vars

----------------------------------------------------------------------------
(* Request.make_filter. A string is the sequence of its characters.        *)

FilterKeys == {<<"c", "o", "s", "t">>, <<"t", "a", "g", "/", "a", " ", "b">>}
FilterValues == {<<"1", "0">>, <<"c", "i", " ", "r", "u", "n", "n", "e", "r">>, <<"5", "0", "%", "&", "u", "p">>}
\* The operators a caller may pass: the tokens the API documents and some
\* it does not.
FilterOperatorArguments ==
    {
     <<"!", "=", "@">>,
     <<"!", "=">>,
     <<"<", "=">>,
     <<"<">>,
     <<"=", "@">>,
     <<"[", "]", "!", "=">>,
     <<"[", "]", "=">>,
     <<"=", "=">>,
     <<">">>,
     <<"=", "=", "=">>,
     <<"!", "=", "=">>,
     <<">", "=">>,
     <<"~", "=">>,
     <<"=">>,
     <<"=", "<">>,
     <<"<", ">">>,
     << >>
    }

\* Variant of filter_operators that lacks the last entry, ">=".
filter_operators_without_last ==
    <<
       <<"!", "=", "@">>,
       <<"!", "=">>,
       <<"<", "=">>,
       <<"<">>,
       <<"=", "@">>,
       <<"[", "]", "!", "=">>,
       <<"[", "]", "=">>,
       <<"=", "=">>,
       <<">">>,
       <<"=", "=", "=">>,
       <<"!", "=", "=">>
    >>

\* cloudability.py:112-125
filter_operators ==
    <<
       <<"!", "=", "@">>,
       <<"!", "=">>,
       <<"<", "=">>,
       <<"<">>,
       <<"=", "@">>,
       <<"[", "]", "!", "=">>,
       <<"[", "]", "=">>,
       <<"=", "=">>,
       <<">">>,
       <<"=", "=", "=">>,
       <<"!", "=", "=">>,
       <<">", "=">>
    >>

\* The characters urllib.parse.quote never encodes, and its default safe="/".
AlwaysSafe ==
    {"a", "b", "c", "d", "e", "f", "g", "h", "i", "j", "k", "l", "m", "n", "o", "p", "q", "r", "s", "t", "u", "v", "w", "x", "y", "z",
     "A", "B", "C", "D", "E", "F", "G", "H", "I", "J", "K", "L", "M", "N", "O", "P", "Q", "R", "S", "T", "U", "V", "W", "X", "Y", "Z",
     "0", "1", "2", "3", "4", "5", "6", "7", "8", "9", "_", ".", "-", "~"}

SafeCharacters == AlwaysSafe \cup {"/"}

HexDigits == <<"0", "1", "2", "3", "4", "5", "6", "7", "8", "9",
               "A", "B", "C", "D", "E", "F">>

\* The byte of an ASCII character that quote encodes.
Ord(c) ==
    CASE c = " " -> 32
      [] c = "!" -> 33
      [] c = "%" -> 37
      [] c = "&" -> 38
      [] c = "<" -> 60
      [] c = "=" -> 61
      [] c = ">" -> 62
      [] c = "@" -> 64
      [] c = "[" -> 91
      [] c = "]" -> 93

\* quote of one character: itself when safe, else "%XX" with its byte in
\* upper-case hexadecimal.
QuoteCharacter(c) ==
    IF c \in SafeCharacters THEN <<c>>
    ELSE <<"%", HexDigits[(Ord(c) \div 16) + 1], HexDigits[(Ord(c) % 16) + 1]>>

\* urllib.parse.quote(string)
RECURSIVE quote(_)
quote(string) ==
    IF string = << >> THEN << >>
    ELSE QuoteCharacter(Head(string)) \o quote(Tail(string))

InitFilter ==
    /\ CostsIdle
    /\ NormIdle
    /\ QueryIdle
    /\ fpc = "check_operator"
    /\ fargs \in [key : FilterKeys, operator : FilterOperatorArguments,
                  value : FilterValues]
    /\ filter = << >>

\* cloudability.py:126-127
CheckOperator ==
    /\ fpc = "check_operator"
    /\ fpc' = IF \E i \in DOMAIN filter_operators : filter_operators[i] = fargs.operator
              THEN "quote" ELSE "RuntimeError"
    /\ UNCHANGED <<fargs, filter, costVars, normVars, queryVars>>

\* cloudability.py:128
QuoteAndReturn ==
    /\ fpc = "quote"
    /\ filter' = quote(fargs.key \o fargs.operator \o fargs.value)
    /\ fpc' = "done"
    /\ UNCHANGED <<fargs, costVars, normVars, queryVars>>

NextFilter ==
    \/ CheckOperator
    \/ QuoteAndReturn

SpecFilter == InitFilter /\ [][NextFilter]_vars

----------------------------------------------------------------------------
(* Properties of pr_costs, checked under SpecCosts.                        *)

\* Sum of f over the set S.
RECURSIVE SumSet(_, _)
SumSet(f, S) ==
    IF S = {} THEN F(0)
    ELSE LET x == CHOOSE y \in S : TRUE
         IN  FAdd(f[x], SumSet(f, S \ {x}))

\* The rows of report df that carry the (Project, Branch) key k.
RowsOfKey(df, k) == {i \in DOMAIN df : df[i].Project = k[1] /\ df[i].Branch = k[2]}

TotalKeys == {<<total_cost[i].Project, total_cost[i].Branch>> : i \in DOMAIN total_cost}
RogueKeys == {<<rogue_report[i].Project, rogue_report[i].Branch>> : i \in DOMAIN rogue_report}

\* The summed total of column col for key k in the total report; missing
\* when the total report has no row for k.
TotalBefore(k, col) ==
    IF k \in TotalKeys
    THEN SumSet([i \in DOMAIN total_cost |-> total_cost[i][col]], RowsOfKey(total_cost, k))
    ELSE NaN

\* Equality of floats: NaN equals nothing.
FEq(a, b) == a # NaN /\ b # NaN /\ a = b

FinalRows == {costs.rows[i] : i \in DOMAIN costs.rows}

C2_CreditPerResource ==
    pc = "done" =>
        /\ \A row \in FinalRows :
              LET rs == RowsOfKey(rogue_report, row.key)
                  hours == [i \in DOMAIN rogue_report |-> rogue_report[i].Rogue_Usage_Hours]
                  net == [i \in DOMAIN rogue_report |->
                            FSub(rogue_report[i].Rogue_Cost,
                                 FMul(FDiv(rogue_report[i].Rogue_Cost,
                                           rogue_report[i].Rogue_Usage_Hours), F(4)))]
              IN  rs # {} =>
                    /\ row.Rogue_Usage_Hours =
                          FSub(SumSet(hours, rs), F(4 * Cardinality(rs)))
                    /\ row.Rogue_Cost = SumSet(net, rs)
        /\ ( /\ total_cost = << [Project |-> "A", Branch |-> "X",
                                  Cost |-> F(100), Usage_Hours |-> F(50)] >>
             /\ Len(rogue_report) = 1
             /\ rogue_report[1].Project = "A"
             /\ rogue_report[1].Branch = "X"
             /\ rogue_report[1].Rogue_Cost = F(20)
             /\ rogue_report[1].Rogue_Usage_Hours = F(10) )
           => costs.rows = << [key |-> <<"A", "X">>, Cost |-> F(88),
                               Usage_Hours |-> F(44), Rogue_Cost |-> F(12),
                               Rogue_Usage_Hours |-> F(6)] >>

\* A final report whose rogue figures for one key come from two rogue rows
\* with different usage hours.
C2_Witness ==
    /\ pc = "done"
    /\ \E row \in FinalRows :
          LET rs == RowsOfKey(rogue_report, row.key)
          IN  /\ Cardinality(rs) = 2
              /\ \E i, j \in rs :
                    rogue_report[i].Rogue_Usage_Hours # rogue_report[j].Rogue_Usage_Hours

C4_OneRowPerKey ==
    pc = "done" =>
        /\ {costs.rows[i].key : i \in DOMAIN costs.rows} = TotalKeys \cup RogueKeys
        /\ \A i, j \in DOMAIN costs.rows :
              costs.rows[i].key = costs.rows[j].key => i = j

\* A final report with a key of the total report alone, a key of the rogue
\* report alone, and fewer rows than the two reports together.
C4_Witness ==
    /\ pc = "done"
    /\ TotalKeys \ RogueKeys # {}
    /\ RogueKeys \ TotalKeys # {}
    /\ Len(costs.rows) < Len(total_cost) + Len(rogue_report)

----------------------------------------------------------------------------
(* Properties of Request.report and Request._request_result_to_dict,       *)
(* checked under SpecNormalize.                                            *)

\* The metric and dimension names the request asks for.
RequestedNames == Range(request.metrics) \cup Range(request.dimensions)

NoNameTwice ==
    Len(request.metrics) + Len(request.dimensions) = Cardinality(RequestedNames)

HasMapping == "name_mapping" \in request.attrs

MappingComplete == RequestedNames \subseteq DOMAIN request.name_mapping

\* No two requested names share an alias.
MappingInjective ==
    \A a, b \in RequestedNames \cap DOMAIN request.name_mapping :
        request.name_mapping[a] = request.name_mapping[b] => a = b

\* The key the report holds the column of name k under.
ColumnKey(k) == IF HasMapping THEN request.name_mapping[k] ELSE k

\* The request can be sent, every requested name is in the catalog and every
\* raw value converts to its declared type.
Normalizable ==
    /\ {"dimensions", "filters", "metrics"} \subseteq request.attrs
    /\ \A k \in RequestedNames :
          /\ type_from_name(Catalog, k).ok
          /\ \A i \in DOMAIN request_result :
                convert(type_from_name(Catalog, k).val, request_result[i][k]).ok

Running == npc \in {"report", "metric_types", "dimension_types", "lines", "mapping"}

\* Column k of the report is the raw rows' field k, converted, in row order.
ColumnOfRows(k) ==
    /\ ColumnKey(k) \in DictKeys(report)
    /\ LET col == DictGet(report, ColumnKey(k))
       IN  /\ Len(col) = Len(request_result)
           /\ \A i \in DOMAIN request_result :
                 col[i] = convert(type_from_name(Catalog, k).val,
                                  request_result[i][k]).val

\* C6 as stated: every report returned has one column per requested metric
\* and dimension, every column has as many entries as there are raw rows, and
\* entry i of a column is the conversion of that field of raw row i, for every
\* list of metrics and dimensions.
C6_ColumnsOfRows ==
    npc = "done" =>
        /\ Len(report) = Cardinality(RequestedNames)
        /\ \A k \in RequestedNames : ColumnOfRows(k)

\* C6 amended: the same, for requests that name no metric or dimension twice
\* and whose name mapping gives no two requested names the same alias.
C6_ColumnsOfRowsDistinct ==
    (npc = "done" /\ NoNameTwice /\ MappingInjective) =>
        /\ Len(report) = Cardinality(RequestedNames)
        /\ \A k \in RequestedNames : ColumnOfRows(k)

\* A report of two columns over two raw rows that differ.
C6_Witness ==
    /\ npc = "done"
    /\ NoNameTwice
    /\ MappingInjective
    /\ Len(report) = 2
    /\ Len(request_result) = 2
    /\ request_result[1] # request_result[2]

\* What C7 says of a mapping that lacks a requested name: no report is
\* returned, and a normalization that got as far as the renaming ends in
\* KeyError.
IncompleteMappingFails ==
    (HasMapping /\ ~MappingComplete) =>
        /\ npc # "done"
        /\ report = << >>
        /\ (Normalizable /\ ~Running) => npc = "KeyError"

\* C7 as stated: with a name mapping that lacks a requested name the
\* normalization fails with a lookup error and returns no report; with a
\* complete mapping every column is keyed by its alias and the row count is
\* preserved.
C7_AliasCompleteness ==
    /\ IncompleteMappingFails
    /\ (npc = "done" /\ HasMapping /\ MappingComplete) =>
          /\ DictKeys(report) = {request.name_mapping[k] : k \in RequestedNames}
          /\ \A k \in RequestedNames :
                /\ DictGet(report, request.name_mapping[k]) = DictGet(ret, k)
                /\ Len(DictGet(report, request.name_mapping[k])) = Len(request_result)

\* C7 amended: the renaming of a complete mapping keys every column by its
\* alias and preserves the row count when no two requested names share an
\* alias and no name is requested twice.
C7_AliasCompletenessInjective ==
    /\ IncompleteMappingFails
    /\ (npc = "done" /\ HasMapping /\ MappingComplete
          /\ MappingInjective /\ NoNameTwice) =>
          /\ DictKeys(report) = {request.name_mapping[k] : k \in RequestedNames}
          /\ \A k \in RequestedNames :
                /\ DictGet(report, request.name_mapping[k]) = DictGet(ret, k)
                /\ Len(DictGet(report, request.name_mapping[k])) = Len(request_result)

\* A report of two renamed columns over two raw rows.
C7_Witness ==
    /\ npc = "done"
    /\ HasMapping
    /\ MappingComplete
    /\ MappingInjective
    /\ NoNameTwice
    /\ Cardinality(RequestedNames) = 2
    /\ DictKeys(report) = Aliases
    /\ Len(request_result) = 2

\* C8: a Request constructed without a name mapping can be executed, and its
\* report is keyed by the original metric and dimension names (the request
\* taken with filters, metrics and dimensions, no name twice, names of the
\* catalog and rows that convert).
C8_MappingOptional ==
    (~HasMapping /\ Normalizable /\ NoNameTwice /\ ~Running) =>
        /\ npc = "done"
        /\ DictKeys(report) = RequestedNames
        /\ report = ret

\* The names the catalog declares, and the type it declares for each.
CatalogNames == {Catalog[i].name : i \in DOMAIN Catalog}

DeclaredType(k) ==
    Catalog[CHOOSE i \in DOMAIN Catalog :
               Catalog[i].name = k /\ \A j \in 1..(i - 1) : Catalog[j].name # k].data_type

\* report could build the query, so the normalizer is entered.
Sendable == {"dimensions", "filters", "metrics"} \subseteq request.attrs

RequestedCount == Len(request.metrics) + Len(request.dimensions)

\* The row loop has been entered or passed, or something came out of it.
PastTypeResolution ==
    \/ npc \in {"lines", "mapping", "done", "KeyError", "ValueError"}
    \/ \E i \in DOMAIN ret : ret[i][2] # << >>
    \/ report # << >>

\* C11: in a request that reaches the normalizer, the catalog is asked for a
\* type once per requested metric and dimension and never again, however
\* many raw rows there are; by the time the first raw row is converted every
\* requested name has its declared type in types; and if some requested name
\* is not in the catalog the run never reaches the row loop: it ends with the
\* catalog's RuntimeError, every column of ret is empty and no report is
\* returned.
C11_FailFastTypeResolution ==
    Sendable =>
        /\ lookups <= RequestedCount
        /\ PastTypeResolution =>
              /\ lookups = RequestedCount
              /\ RequestedNames \subseteq CatalogNames
              /\ DictKeys(types) = RequestedNames
              /\ \A k \in RequestedNames : DictGet(types, k) = DeclaredType(k)
        /\ ~(RequestedNames \subseteq CatalogNames) =>
              /\ npc \in {"report", "metric_types", "dimension_types", "RuntimeError"}
              /\ \A i \in DOMAIN ret : ret[i][2] = << >>
              /\ report = << >>

\* The second metric is not in the catalog and the transport returned two
\* rows: the run ended at the second lookup, with no row converted.
C11_Witness ==
    /\ npc = "RuntimeError"
    /\ request.metrics = <<"cost", "ghost">>
    /\ Len(request_result) = 2
    /\ lookups = 2
    /\ DictKeys(types) = {"cost"}
    /\ DictKeys(ret) = {"cost", "ghost"}
    /\ \A i \in DOMAIN ret : ret[i][2] = << >>
    /\ report = << >>

----------------------------------------------------------------------------
(* Properties of CloudabilityReport._query_report, checked under SpecQuery. *)

QueryEnded == qpc \in {"done", "RuntimeError", "KeyError", "AssertionError"}

Paginated == "pagination" \in response.keys /\ response.pagination # << >>

NonEmptyDict == response.kind = "dict" /\ response.keys # {}

\* C9: _query_report ends in an error and returns no rows whenever the
\* response is paginated or is not a non-empty dict, and returns the results
\* list only for an unpaginated, well-formed response.
C9_PaginatedOrMalformedFails ==
    QueryEnded =>
        /\ (Paginated \/ ~NonEmptyDict) => (qpc # "done" /\ results = << >>)
        /\ qpc = "done" =>
              /\ ~Paginated
              /\ ResponseKeys \subseteq response.keys
              /\ results = response.results

----------------------------------------------------------------------------
(* Properties of Request.make_filter, checked under SpecFilter.            *)

\* The twelve operator tokens of the claim.
SupportedOperators ==
    {
     <<"!", "=", "@">>,
     <<"!", "=">>,
     <<"<", "=">>,
     <<"<">>,
     <<"=", "@">>,
     <<"[", "]", "!", "=">>,
     <<"[", "]", "=">>,
     <<"=", "=">>,
     <<">">>,
     <<"=", "=", "=">>,
     <<"!", "=", "=">>,
     <<">", "=">>
    }

FilterEnded == fpc \in {"done", "RuntimeError"}

HexValue(h) == (CHOOSE i \in DOMAIN HexDigits : HexDigits[i] = h) - 1

\* The character of a byte, for the bytes the strings modelled hold.
Chr(n) == CHOOSE c \in {" ", "!", "%", "&", "<", "=", ">", "@", "[", "]"} : Ord(c) = n

\* Percent-decoding: "%XX" is the character of byte XX, any other character
\* is itself.
RECURSIVE Unquote(_)
Unquote(string) ==
    IF string = << >> THEN << >>
    ELSE IF Head(string) = "%"
    THEN <<Chr(16 * HexValue(string[2]) + HexValue(string[3]))>>
         \o Unquote(SubSeq(string, 4, Len(string)))
    ELSE <<Head(string)>> \o Unquote(Tail(string))

\* string is the percent-encoding of plain: it decodes to plain, holds only
\* safe characters and "%XX" escapes, and escapes no safe character.
IsPercentEncodingOf(string, plain) ==
    /\ \A i \in DOMAIN string :
          string[i] \in SafeCharacters \cup {"%"}
    /\ Unquote(string) = plain
    /\ Len(string) =
          Len(plain) + 2 * Cardinality({i \in DOMAIN plain : plain[i] \notin SafeCharacters})

\* C10: make_filter fails for every operator outside the set of twelve
\* tokens and, for every operator in the set, returns the percent-encoding
\* of key + operator + value. (That the result depends on the three
\* arguments alone holds of any operator and is not part of the formula.)
C10_MakeFilter ==
    FilterEnded =>
        IF fargs.operator \in SupportedOperators
        THEN /\ fpc = "done"
             /\ IsPercentEncodingOf(filter, fargs.key \o fargs.operator \o fargs.value)
        ELSE /\ fpc = "RuntimeError"
             /\ filter = << >>

\* The filter of main.py's rogue request shape: ">=" between a key and a
\* value with a space, encoded.
C10_Witness ==
    /\ fpc = "done"
    /\ fargs.operator = <<">", "=">>
    /\ fargs.value = <<"c", "i", " ", "r", "u", "n", "n", "e", "r">>
    /\ filter # fargs.key \o fargs.operator \o fargs.value

====
